---- MODULE Spec2Model ----
(***************************************************************************)
(* create-tftf: the command-line tool that assembles a TFTF (Trusted       *)
(* Firmware Transfer Format) file: a 512-byte header holding up to 25      *)
(* section descriptors, followed by the section payloads.                  *)
(*                                                                         *)
(* The model follows src/create-tftf/create-tftf.c function by function:   *)
(* main's getopt loop (one action per switch case), the argument check,    *)
(* write_tftf_file (open, one loop iteration per section, header write),   *)
(* and main's report (validate_tftf_header, unlink, exit status).          *)
(*                                                                         *)
(* uint32_t values are kept as their 32-bit pattern read as a two's        *)
(* complement number: 0 .. 2^31-1 stand for themselves and 2^31 .. 2^32-1  *)
(* are written v - 2^32 (so 0xFFFFFFFF is -1).  Add32 wraps modulo 2^32    *)
(* and Lt32 / Gt32 compare as unsigned numbers, as the C code does.        *)
(***************************************************************************)
EXTENDS Integers, Sequences, FiniteSets, TLC

\* ------------------------------------------------------------------ bounds
\* Section options (--code, --data, --manifest) accepted from a command line
\* that starts with no bulk prefix.
MaxSections == 2
\* I/O faults (failed open, failed or short read / write) in one run.
MaxFaults == 1

\* ------------------------------------------------------- program constants
COPY_BUFFER_SIZE == 4096
PROGRAM_SUCCESS == 0
PROGRAM_WARNINGS == 1
PROGRAM_ERRORS == 2
TFTF_SENTINEL == 1179928148
TFTF_SECTION_TYPE_RAW_CODE_BLOCK == 1
TFTF_SECTION_TYPE_RAW_DATA_BLOCK == 2
TFTF_SECTION_TYPE_MANIFEST == 5
TFTF_SECTION_TYPE_END_OF_DESCRIPTORS == 254
TFTF_TIMESTAMP_LENGTH == 16
TFTF_FW_PKG_NAME_LENGTH == 48
TFTF_HDR_LENGTH == 512
TFTF_MAX_SECTIONS == 25

\* ------------------------------------------------------ uint32_t arithmetic
MaxInt32 == 2147483646 + 1
MinInt32 == (-MaxInt32) - 1

\* a + b modulo 2^32 on 32-bit patterns, without leaving the 32-bit range.
Add32(a, b) ==
    IF a >= 0 /\ b >= 0
    THEN IF a > MaxInt32 - b
         THEN ((a - MaxInt32) - 1) + ((b - MaxInt32) - 1)
         ELSE a + b
    ELSE IF a < 0 /\ b < 0
    THEN IF a >= MinInt32 - b
         THEN a + b
         ELSE ((a + MaxInt32) + 1) + ((b + MaxInt32) + 1)
    ELSE a + b

\* a < b and a > b as unsigned 32-bit numbers.
Lt32(a, b) ==
    IF (a >= 0) = (b >= 0) THEN a < b ELSE a >= 0

Gt32(a, b) == Lt32(b, a)

\* 16 * a modulo 2^32.
Mul16(a) ==
    LET a2 == Add32(a, a)
        a4 == Add32(a2, a2)
        a8 == Add32(a4, a4)
    IN Add32(a8, a8)

Min(a, b) == IF a < b THEN a ELSE b

\* A C integer used as a bool (write_tftf_file returns PROGRAM_ERRORS as bool).
ToBool(n) == n # 0

\* --------------------------------------------------------------- the inputs
\* The input files of the runs: name -> what open() and read() find.
\*   a: 4 bytes,  b: 4100 bytes (two read chunks),  e: empty,  x: missing.
Files == {"a", "b", "e", "x"}

\* The files named with each section option.
CodeFiles == {"b"}
DataFiles == {"a", "e"}
ManifestFiles == {"x"}

FileExists(f) == f # "x"

FileSize(f) == CASE f = "a" -> 4
                 [] f = "b" -> COPY_BUFFER_SIZE + 4
                 [] OTHER -> 0

\* The vertical tab (character 0x0B), written as the character itself.
VT == ""

\* Arguments of the numeric options, as the characters typed.
OffsetArgs == { <<"1", "0", "0", "0">>, <<"0", "x", "3", "0", "0", "0">>,
                <<"0">>, <<"1", "g">> }
\* An offset in the upper half of the address space.
HighOffsetArgs == { <<"8", "0", "0", "0", "0", "0", "0", "0">> }
\* The offsets given on the long lines.
LongOffsetArgs == HighOffsetArgs \cup { <<"1", "0", "0", "0">> }
LoadArgs == { <<"0", "x", "2", "0">>, <<"z">> }
\* Start addresses: plain, not a number, negative, with white space and
\* sign, and one of 17 digits (more than an unsigned long holds).
StartArgs == { <<"4", "0">>, <<"z">>, <<"-", "2">>,
               <<" ", VT, "+", "1", "0">>,
               <<"1", "0", "0", "0", "0", "0", "0", "0", "0",
                 "0", "0", "0", "0", "0", "0", "0", "0">> }
IdArgs == { <<"7">>, <<"z">> }
OutNames == {"out.tftf"}

\* The families of command lines: section layout (m c d f l o), long lines
\* (a prefix of "--code b" options, then c f o), header settings (n l s o and
\* one code section), ids and flags (u U a A v C ? o and one code section).
Lines == {"sections", "long", "header", "ids"}

LineOptions(l) ==
    CASE l = "sections" -> {"m", "c", "d", "f", "l", "o"}
      [] l = "long" -> {"c", "f", "o"}
      [] l = "header" -> {"n", "l", "s", "o", "c"}
      [] OTHER -> {"u", "U", "a", "A", "v", "C", "?", "o", "c"}

\* The section option that fills a bulk prefix.
FillerFile == "b"
BulkCounts == {TFTF_MAX_SECTIONS - 2, TFTF_MAX_SECTIONS - 1, TFTF_MAX_SECTIONS}

\* struct tm values gmtime() may return (tm_mon counts from 0).
Times == { [tm_year |-> 115, tm_mon |-> 0, tm_mday |-> 5,
            tm_hour |-> 7, tm_min |-> 8, tm_sec |-> 9],
           [tm_year |-> 115, tm_mon |-> 11, tm_mday |-> 31,
            tm_hour |-> 23, tm_min |-> 59, tm_sec |-> 58] }

NULL == "NULL"
NUL == "NUL"

\* --------------------------------------------------------- data structures
\* section_info (the parser's cache entry), zeroed static storage.
section_info == [filename |-> NULL, type |-> 0, offset |-> 0]

\* struct tftf_section, zeroed.
tftf_section ==
    [section_length |-> 0, expanded_length |-> 0, copy_offset |-> 0,
     section_type |-> 0]

SlotIndex == 0 .. (TFTF_MAX_SECTIONS - 1)

\* struct tftf_hdr after memset(&tftf_header, 0, sizeof(tftf_header)).
tftf_hdr ==
    [sentinel |-> 0,
     timestamp |-> [i \in 1 .. TFTF_TIMESTAMP_LENGTH |-> NUL],
     fw_pkg_name |-> [i \in 1 .. TFTF_FW_PKG_NAME_LENGTH |-> NUL],
     load_length |-> 0,
     load_base |-> 0,
     expanded_length |-> 0,
     start_location |-> 0,
     unipro_mfg_id |-> 0,
     unipro_product_id |-> 0,
     ara_vendor_id |-> 0,
     ara_product_id |-> 0,
     section_descriptors |-> [i \in SlotIndex |-> tftf_section]]

VARIABLES
    pc,               \* where the program is: getopt, open, loop, report, exit
    line,             \* the family the command line belongs to
    bulk,             \* length of the command line's prefix of "--code b"
    pending,          \* options of that prefix still to be read
    faults,           \* I/O faults that have happened in this run
    option,           \* main: the option getopt_long returned last
    optarg,           \* getopt: the argument of that option, or NULL
    seen,             \* the options read so far
    verbose,          \* the verbose flag
    compress,         \* the compress flag
    section_index,    \* main: index of the last valid section_cache entry
    allow_offset,     \* main: an --offset may follow
    output_filename,  \* main: the --out argument, or NULL
    success,          \* main: success
    program_status,   \* main: the exit status
    section_cache,    \* the parser's section cache
    tftf_header,      \* the header being built
    section,          \* write_tftf_file: index of the descriptor in the loop
    tftf_copy_offset, \* write_tftf_file: the running copy offset
    wsuccess,         \* write_tftf_file: success
    out_exists,       \* the output file exists on disk
    out_pos,          \* the output file's position
    payload_at,       \* file position at which each section's copy began
    hdr_on_disk,      \* the header bytes written at offset 0, or NULL
    hdr_writes,       \* number of header writes
    copy_log,         \* what each copy_file call met and returned
    messages,         \* the kinds of message printed to stderr
    warnings          \* the pairs validate_tftf_header reported

vars == <<pc, line, bulk, pending, faults, option, optarg, seen, verbose,
          compress, section_index, allow_offset,
          output_filename, success, program_status, section_cache,
          tftf_header, section, tftf_copy_offset, wsuccess, out_exists,
          out_pos, payload_at, hdr_on_disk, hdr_writes, copy_log, messages,
          warnings>>

parse_vars == <<section_index, allow_offset, output_filename, section_cache>>
flag_vars == <<verbose, compress>>
opt_vars == <<line, option, optarg, seen, verbose, compress>>
write_vars == <<section, tftf_copy_offset, wsuccess, out_exists, out_pos,
                payload_at, hdr_on_disk, hdr_writes, copy_log>>

\* ------------------------------------------------------------------- Init
Init ==
    /\ pc = "getopt"
    /\ line \in Lines
    /\ bulk \in (IF line = "long" THEN BulkCounts ELSE {0})
    /\ pending = bulk
    /\ faults = IF line = "sections" /\ bulk = 0 THEN 0 ELSE MaxFaults
    /\ option = NULL
    /\ optarg = NULL
    /\ seen = {}
    /\ verbose = FALSE
    /\ compress = FALSE
    /\ section_index = -1
    /\ allow_offset = FALSE
    /\ output_filename = NULL
    /\ success = TRUE
    /\ program_status = 0
    /\ section_cache = [i \in SlotIndex |-> section_info]
    /\ tftf_header = tftf_hdr
    /\ section = 0
    /\ tftf_copy_offset = 0
    /\ wsuccess = TRUE
    /\ out_exists = FALSE
    /\ out_pos = 0
    /\ payload_at = <<>>
    /\ hdr_on_disk = NULL
    /\ hdr_writes = 0
    /\ copy_log = <<>>
    /\ messages = {}
    /\ warnings = {}

\* ---------------------------------------------------------------- get_num
HexDigits == <<"0", "1", "2", "3", "4", "5", "6", "7", "8", "9",
               "a", "b", "c", "d", "e", "f">>
HexDigitsUpper == <<"0", "1", "2", "3", "4", "5", "6", "7", "8", "9",
                    "A", "B", "C", "D", "E", "F">>

IsHex(c) == \E i \in 1 .. 16 : HexDigits[i] = c \/ HexDigitsUpper[i] = c

HexVal(c) == (CHOOSE i \in 1 .. 16 : HexDigits[i] = c \/ HexDigitsUpper[i] = c) - 1

\* Hex digits an unsigned long holds (64 bits): strtoul accumulates in one.
ULONG_DIGITS == 16

\* The characters isspace() accepts, which strtoul skips before the number:
\* space, \t, \n, \v, \f, \r.
WhiteSpace == {" ", "\t", "\n", VT, "\f", "\r"}

\* Index of the first character of input at or after i that is no white space.
RECURSIVE SkipSpace(_, _)
SkipSpace(input, i) ==
    IF i <= Len(input) /\ input[i] \in WhiteSpace
    THEN SkipSpace(input, i + 1)
    ELSE i

\* -a modulo 2^32 on 32-bit patterns.
Neg32(a) == IF a = MinInt32 THEN MinInt32 ELSE -a

\* The digit loop of strtoul(input, &tail, 16) from position i on: acc is the
\* low 32 bits of the value so far and sig the number of its digits from the
\* first non-zero one on (leading zeros leave both at 0).  The loop reads
\* every digit; the value overflows the unsigned long when sig passes
\* ULONG_DIGITS.  (The next step's acc and sig are bound to their values.)
RECURSIVE ParseDigits(_, _, _, _)
ParseDigits(input, i, acc, sig) ==
    IF i > Len(input) \/ ~IsHex(input[i])
    THEN [value |-> acc, overflow |-> sig > ULONG_DIGITS,
          tail |-> SubSeq(input, i, Len(input))]
    ELSE CHOOSE r \in
             { ParseDigits(input, i + 1, a, g) :
                   a \in {Add32(Mul16(acc), HexVal(input[i]))},
                   g \in {IF sig = 0 /\ HexVal(input[i]) = 0 THEN 0
                          ELSE Min(sig, ULONG_DIGITS) + 1} } : TRUE

\* strtoul(input, &tail, 16), its result stored in a uint32_t: leading white
\* space, an optional sign, an optional 0x / 0X prefix (taken only when a hex
\* digit follows it), then hex digits.  With no digit at all the value is 0
\* and the tail is the whole input; on overflow the value is ULONG_MAX,
\* whatever the sign; otherwise a minus sign negates the value.
strtoul(input) ==
    LET s == SkipSpace(input, 1)
        negative == s <= Len(input) /\ input[s] = "-"
        d == IF s <= Len(input) /\ input[s] \in {"+", "-"} THEN s + 1 ELSE s
        p == IF /\ Len(input) >= d + 2
                /\ input[d] = "0"
                /\ input[d + 1] \in {"x", "X"}
                /\ IsHex(input[d + 2])
             THEN d + 2
             ELSE d
        r == ParseDigits(input, p, 0, 0)
    IN IF Len(r.tail) = (Len(input) - p) + 1
       THEN [value |-> 0, tail |-> input]
       ELSE [value |-> IF r.overflow THEN -1
                       ELSE IF negative THEN Neg32(r.value)
                       ELSE r.value,
             tail |-> r.tail]

\* get_num: *num is stored in every case; failure iff the tail is not empty
\* (the errno test "errno != errno" is never true).
get_num(input) ==
    LET r == strtoul(input)
    IN [num |-> r.value, success |-> r.tail = <<>>]

\* ----------------------------------------------------------- cache_section
\* Faulty variant: the bound test lets the index reach the table length.
cache_section_unchecked(section_filename, section_type, section_table, section_table_length, idx) ==
    IF idx < section_table_length
    THEN [section_table |->
              [section_table EXCEPT ![idx + 1].filename = section_filename,
                                    ![idx + 1].type = section_type],
          section_index |-> idx + 1,
          success |-> TRUE,
          printed |-> {}]
    ELSE [section_table |-> section_table,
          section_index |-> idx,
          success |-> TRUE,
          printed |-> {"too many sections"}]

\* Returns the table, the index and the returned bool; "printed" tells whether
\* the "too many sections" message went to stderr.
cache_section(section_filename, section_type, section_table, section_table_length, idx) ==
    IF idx < section_table_length - 1
    THEN [section_table |->
              [section_table EXCEPT ![idx + 1].filename = section_filename,
                                    ![idx + 1].type = section_type],
          section_index |-> idx + 1,
          success |-> TRUE,
          printed |-> {}]
    ELSE [section_table |-> section_table,
          section_index |-> idx,
          success |-> TRUE,
          printed |-> {"too many sections"}]

\* ------------------------------------------------------ main: getopt loop
\* The number of section options a line without bulk prefix may carry.
SectionLimit == IF line = "sections" THEN MaxSections ELSE 1

\* getopt_long hands out option opt with argument arg: while the bulk prefix
\* lasts it is "--code b"; after it any option of the line's family, a section
\* option only while the line keeps within its number of sections, an offset
\* from the offsets of the line's family.
Offered(opt, arg) ==
    /\ pc = "getopt"
    /\ success
    /\ IF pending > 0
       THEN opt = "c" /\ arg = FillerFile
       ELSE /\ opt \in LineOptions(line)
            /\ opt \in {"c", "d", "m"} =>
                   (bulk > 0 \/ section_index + 1 < SectionLimit)
            /\ opt = "f" =>
                   arg \in (IF bulk > 0 THEN LongOffsetArgs ELSE OffsetArgs)

\* getopt_long returns opt and leaves its argument in optarg.
Consume(opt, arg) ==
    /\ pending' = IF pending > 0 THEN pending - 1 ELSE pending
    /\ option' = opt
    /\ optarg' = arg
    /\ seen' = seen \cup {opt}
    /\ UNCHANGED <<line, bulk>>

\* case 'm' (with the allow_offset preprocessing of lines 653-655).
OptManifest(f) ==
    /\ Offered("m", f)
    /\ Consume("m", f)
    /\ LET r == cache_section(f, TFTF_SECTION_TYPE_MANIFEST, section_cache,
                              TFTF_MAX_SECTIONS, section_index)
       IN /\ allow_offset' = FALSE
          /\ success' = r.success
          /\ section_cache' = r.section_table
          /\ section_index' = r.section_index
          /\ messages' = messages \cup r.printed
    /\ UNCHANGED <<pc, faults, output_filename, program_status, tftf_header,
                   warnings>>
    /\ UNCHANGED write_vars
    /\ UNCHANGED flag_vars

\* case 'c'.
OptCode(f) ==
    /\ Offered("c", f)
    /\ Consume("c", f)
    /\ LET r == cache_section(f, TFTF_SECTION_TYPE_RAW_CODE_BLOCK,
                              section_cache, TFTF_MAX_SECTIONS, section_index)
       IN /\ allow_offset' = TRUE
          /\ success' = r.success
          /\ section_cache' = r.section_table
          /\ section_index' = r.section_index
          /\ messages' = messages \cup r.printed
    /\ UNCHANGED <<pc, faults, output_filename, program_status, tftf_header,
                   warnings>>
    /\ UNCHANGED write_vars
    /\ UNCHANGED flag_vars

\* case 'd': allow_offset is left as it was.
OptData(f) ==
    /\ Offered("d", f)
    /\ Consume("d", f)
    /\ LET r == cache_section(f, TFTF_SECTION_TYPE_RAW_DATA_BLOCK,
                              section_cache, TFTF_MAX_SECTIONS, section_index)
       IN /\ success' = r.success
          /\ section_cache' = r.section_table
          /\ section_index' = r.section_index
          /\ messages' = messages \cup r.printed
    /\ UNCHANGED <<pc, faults, allow_offset, output_filename, program_status,
                   tftf_header, warnings>>
    /\ UNCHANGED write_vars
    /\ UNCHANGED flag_vars

\* case 'f': the offset of section_cache[section_index], when allowed.
OptOffset(arg) ==
    /\ Offered("f", arg)
    /\ Consume("f", arg)
    /\ IF allow_offset
       THEN LET r == get_num(arg)
            IN /\ section_cache' =
                      [section_cache EXCEPT ![section_index].offset = r.num]
               /\ success' = r.success
               /\ messages' = messages \cup
                      (IF r.success THEN {} ELSE {"invalid number"})
       ELSE /\ messages' = messages \cup {"offset only allowed after code and data"}
            /\ UNCHANGED <<section_cache, success>>
    /\ allow_offset' = FALSE
    /\ UNCHANGED <<pc, faults, section_index, output_filename, program_status,
                   tftf_header, warnings>>
    /\ UNCHANGED write_vars
    /\ UNCHANGED flag_vars

\* case 'l': the load address.
OptLoad(arg) ==
    /\ Offered("l", arg)
    /\ Consume("l", arg)
    /\ LET r == get_num(arg)
       IN /\ tftf_header' = [tftf_header EXCEPT !.load_base = r.num]
          /\ success' = r.success
          /\ messages' = messages \cup
                 (IF r.success THEN {} ELSE {"invalid number"})
    /\ allow_offset' = FALSE
    /\ UNCHANGED <<pc, faults, section_index, output_filename, program_status,
                   section_cache, warnings>>
    /\ UNCHANGED write_vars
    /\ UNCHANGED flag_vars

\* case 'o'.
OptOut(name) ==
    /\ Offered("o", name)
    /\ Consume("o", name)
    /\ output_filename' = name
    /\ allow_offset' = FALSE
    /\ UNCHANGED <<pc, faults, section_index, success, program_status,
                   section_cache, tftf_header, messages, warnings>>
    /\ UNCHANGED write_vars
    /\ UNCHANGED flag_vars

\* The package names given with --name: shorter than the field, as long as
\* the field, one character longer.
ShortName == <<"f", "e">>
FullName == [i \in 1 .. TFTF_FW_PKG_NAME_LENGTH |-> HexDigits[(i % 10) + 1]]
LongName == [i \in 1 .. (TFTF_FW_PKG_NAME_LENGTH + 1) |-> HexDigits[(i % 10) + 1]]
NameArgs == {ShortName, FullName, LongName}

\* strncpy(dest, src, n): the n bytes stored at dest, the first
\* min(strlen(src), n) of src and then NULs.
strncpy(src, n) == [i \in 1 .. n |-> IF i <= Len(src) THEN src[i] ELSE NUL]

\* Faulty variant: the whole name and its NUL are copied (strcpy); what does
\* not fit the field lands in the low bytes of load_length, which follows it.
OptName_unbounded(arg) ==
    /\ Offered("n", arg)
    /\ Consume("n", arg)
    /\ LET bytes == arg \o <<NUL>>
           n == TFTF_FW_PKG_NAME_LENGTH
           CharCode(c) == IF c = NUL THEN 0
                          ELSE IF HexVal(c) < 10 THEN 48 + HexVal(c)
                          ELSE 87 + HexVal(c)
           spill0 == IF Len(bytes) > n THEN CharCode(bytes[n + 1]) ELSE 0
           spill1 == IF Len(bytes) > n + 1 THEN CharCode(bytes[n + 2]) ELSE 0
       IN tftf_header' =
              [tftf_header EXCEPT
                  !.fw_pkg_name = [i \in 1 .. n |->
                                      IF i <= Len(bytes) THEN bytes[i] ELSE @[i]],
                  !.load_length = IF Len(bytes) > n
                                  THEN spill0 + (256 * spill1)
                                  ELSE @]
    /\ allow_offset' = FALSE
    /\ UNCHANGED <<pc, faults, section_index, output_filename, success,
                   program_status, section_cache, messages, warnings>>
    /\ UNCHANGED write_vars
    /\ UNCHANGED flag_vars

\* case 'n': the package name.
OptName(arg) ==
    /\ Offered("n", arg)
    /\ Consume("n", arg)
    /\ tftf_header' =
           [tftf_header EXCEPT
               !.fw_pkg_name = strncpy(arg, TFTF_FW_PKG_NAME_LENGTH)]
    /\ allow_offset' = FALSE
    /\ UNCHANGED <<pc, faults, section_index, output_filename, success,
                   program_status, section_cache, messages, warnings>>
    /\ UNCHANGED write_vars
    /\ UNCHANGED flag_vars

\* The cases that store a number into a header field: get_num's result is
\* the new success, the number is stored in either case.
StoreNumber(opt, arg, hdr) ==
    /\ Offered(opt, arg)
    /\ Consume(opt, arg)
    /\ tftf_header' = hdr
    /\ success' = get_num(arg).success
    /\ messages' = messages \cup
           (IF get_num(arg).success THEN {} ELSE {"invalid number"})
    /\ allow_offset' = FALSE
    /\ UNCHANGED <<pc, faults, section_index, output_filename, program_status,
                   section_cache, warnings>>
    /\ UNCHANGED write_vars
    /\ UNCHANGED flag_vars

\* case 's': the start address.
OptStart(arg) ==
    StoreNumber("s", arg,
        [tftf_header EXCEPT !.start_location = get_num(arg).num])

\* case 'u'.
OptUniproMfg(arg) ==
    StoreNumber("u", arg,
        [tftf_header EXCEPT !.unipro_mfg_id = get_num(arg).num])

\* case 'U'.
OptUniproProduct(arg) ==
    StoreNumber("U", arg,
        [tftf_header EXCEPT !.unipro_product_id = get_num(arg).num])

\* case 'a'.
OptAraVendor(arg) ==
    StoreNumber("a", arg,
        [tftf_header EXCEPT !.ara_vendor_id = get_num(arg).num])

\* case 'A'.
OptAraProduct(arg) ==
    StoreNumber("A", arg,
        [tftf_header EXCEPT !.ara_product_id = get_num(arg).num])

\* The cases without argument: 'v', 'C' and '?' (an option getopt_long does
\* not know, for which it has printed its own message).
Flag(opt) ==
    /\ Offered(opt, NULL)
    /\ Consume(opt, NULL)
    /\ allow_offset' = FALSE
    /\ UNCHANGED <<pc, faults, section_index, output_filename, success,
                   program_status, section_cache, tftf_header, messages,
                   warnings>>
    /\ UNCHANGED write_vars

\* case 'v'.
OptVerbose ==
    /\ Flag("v")
    /\ verbose' = TRUE
    /\ UNCHANGED compress

\* case 'C'.
OptCompress ==
    /\ Flag("C")
    /\ compress' = TRUE
    /\ UNCHANGED verbose

\* case '?'.
OptUnknown ==
    /\ Flag("?")
    /\ UNCHANGED flag_vars

\* What getopt_long returns at the end of the command line.
EndOfOptions == "-1"

\* The loop ends (getopt_long returns -1, or success is false); then the
\* argument check of lines 769-785.
CheckArgs ==
    /\ pc = "getopt"
    /\ ~success \/ pending = 0
    /\ IF ~success
       THEN /\ program_status' = PROGRAM_ERRORS
            /\ pc' = "exit"
            /\ UNCHANGED <<success, messages>>
       ELSE IF output_filename = NULL
       THEN /\ success' = FALSE
            /\ messages' = messages \cup {"no output file specified"}
            /\ pc' = "exit"
            /\ UNCHANGED program_status
       ELSE IF section_index = -1
       THEN /\ success' = FALSE
            /\ messages' = messages \cup {"missing input section(s)"}
            /\ pc' = "exit"
            /\ UNCHANGED program_status
       ELSE /\ pc' = "open"
            /\ UNCHANGED <<success, program_status, messages>>
    /\ IF success
       THEN option' = EndOfOptions /\ optarg' = NULL
       ELSE UNCHANGED <<option, optarg>>
    /\ UNCHANGED <<line, bulk, pending, faults, seen, tftf_header, warnings>>
    /\ UNCHANGED flag_vars
    /\ UNCHANGED parse_vars
    /\ UNCHANGED write_vars

\* --------------------------------------------------------------- copy_file
\* An I/O fault met by one copy_file call: at read or write number "chunk",
\* a failed read (-1), a failed write (-1) or a short write of n bytes.
NoFault == [chunk |-> 0, kind |-> "none", n |-> 0]

NChunks(f) == (FileSize(f) + (COPY_BUFFER_SIZE - 1)) \div COPY_BUFFER_SIZE

ChunkLen(f, k) == Min(COPY_BUFFER_SIZE, FileSize(f) - ((k - 1) * COPY_BUFFER_SIZE))

FaultsOf(f) ==
    IF ~FileExists(f) THEN {}
    ELSE {[chunk |-> k, kind |-> "read", n |-> 0] : k \in 1 .. (NChunks(f) + 1)}
         \cup {[chunk |-> k, kind |-> "write", n |-> 0] : k \in 1 .. NChunks(f)}
         \cup {[chunk |-> k, kind |-> "short", n |-> ChunkLen(f, k) - 1] :
                   k \in {j \in 1 .. NChunks(f) : ChunkLen(f, j) >= 2}}

\* The do/while loop of copy_file from read number k on: pos bytes of the
\* input have been read and total bytes written.
RECURSIVE CopyLoop(_, _, _, _, _)
CopyLoop(f, pos, total, k, fault) ==
    LET bytes_read ==
            IF fault.chunk = k /\ fault.kind = "read" THEN -1
            ELSE Min(COPY_BUFFER_SIZE, FileSize(f) - pos)
        bytes_written ==
            IF fault.chunk = k /\ fault.kind = "write" THEN -1
            ELSE IF fault.chunk = k /\ fault.kind = "short" THEN fault.n
            ELSE bytes_read
        new_total == IF bytes_written > 0 THEN total + bytes_written ELSE total
    IN IF bytes_read <= 0
       THEN [total |-> total, read |-> pos, eof |-> bytes_read = 0]
       ELSE IF bytes_written > 0
       THEN CopyLoop(f, pos + bytes_read, new_total, k + 1, fault)
       ELSE [total |-> new_total, read |-> pos + bytes_read, eof |-> FALSE]

\* Faulty variant: the lengths stored are the bytes read, not the bytes
\* written.
copy_file_read(section_file_name, sec, fault) ==
    LET opened == FileExists(section_file_name)
        r == IF opened
             THEN CopyLoop(section_file_name, 0, 0, 1, fault)
             ELSE [total |-> 0, read |-> 0, eof |-> FALSE]
    IN [status |-> IF r.total > 0 THEN 0 ELSE 2,
        section |-> IF r.total > 0
                    THEN [sec EXCEPT !.section_length = r.read,
                                     !.expanded_length = r.read]
                    ELSE sec,
        written |-> r.total,
        opened |-> opened,
        read |-> r.read,
        eof |-> r.eof,
        printed |-> (IF opened THEN {} ELSE {"unable to open"})
                    \cup (IF r.total > 0 THEN {} ELSE {"unable to copy"})]

\* copy_file: status, the section descriptor with the two out parameters
\* stored (only when something was written), the bytes added to the output,
\* and what the call met: opened, bytes read, end of file seen.
copy_file(section_file_name, sec, fault) ==
    LET opened == FileExists(section_file_name)
        r == IF opened
             THEN CopyLoop(section_file_name, 0, 0, 1, fault)
             ELSE [total |-> 0, read |-> 0, eof |-> FALSE]
    IN [status |-> IF r.total > 0 THEN 0 ELSE 2,
        section |-> IF r.total > 0
                    THEN [sec EXCEPT !.section_length = r.total,
                                     !.expanded_length = r.total]
                    ELSE sec,
        written |-> r.total,
        opened |-> opened,
        read |-> r.read,
        eof |-> r.eof,
        printed |-> (IF opened THEN {} ELSE {"unable to open"})
                    \cup (IF r.total > 0 THEN {} ELSE {"unable to copy"})]

\* ------------------------------------------------------ append_tftf_section
\* Faulty variant: the default copy offset is not moved past the section.
append_tftf_section_stale(section_filename, section_type, sec, copy_offset, fault) ==
    LET c == copy_file(section_filename, sec, fault)
    IN IF c.status = 0
       THEN [success |-> TRUE,
             section |-> [c.section EXCEPT !.section_type = section_type,
                                           !.copy_offset = copy_offset],
             tftf_copy_offset |-> copy_offset,
             copy |-> c]
       ELSE [success |-> FALSE,
             section |-> c.section,
             tftf_copy_offset |-> copy_offset,
             copy |-> c]

append_tftf_section(section_filename, section_type, sec, copy_offset, fault) ==
    LET c == copy_file(section_filename, sec, fault)
    IN IF c.status = 0
       THEN [success |-> TRUE,
             section |-> [c.section EXCEPT !.section_type = section_type,
                                           !.copy_offset = copy_offset],
             tftf_copy_offset |-> Add32(copy_offset, c.section.expanded_length),
             copy |-> c]
       ELSE [success |-> FALSE,
             section |-> c.section,
             tftf_copy_offset |-> copy_offset,
             copy |-> c]

\* ------------------------------------------------------------ set_timestamp
Digit(n) == HexDigits[n + 1]

Fmt2(n) == <<Digit((n \div 10) % 10), Digit(n % 10)>>

Fmt4(n) == <<Digit((n \div 1000) % 10), Digit((n \div 100) % 10),
             Digit((n \div 10) % 10), Digit(n % 10)>>

\* sprintf(timestamp, "%4d%02d%02d %02d%02d%02d", tm_year + 1900, tm_mon, ...)
\* followed by the terminating NUL sprintf stores.
set_timestamp(now) ==
    Fmt4(now.tm_year + 1900) \o Fmt2(now.tm_mon) \o Fmt2(now.tm_mday)
    \o <<" ">> \o Fmt2(now.tm_hour) \o Fmt2(now.tm_min) \o Fmt2(now.tm_sec)
    \o <<NUL>>

\* ------------------------------------------------------ validate_tftf_header
\* SECTION_END: copy_offset + expanded_length - 1 in uint32_t arithmetic.
SECTION_END(sec) == Add32(Add32(sec.copy_offset, sec.expanded_length), -1)

\* The index at which both loops stop: the first descriptor whose type is the
\* end-of-table marker, or TFTF_MAX_SECTIONS.
ScanLimit(sections) ==
    LET ends == {i \in SlotIndex :
                    sections[i].section_type = TFTF_SECTION_TYPE_END_OF_DESCRIPTORS}
    IN IF ends = {} THEN TFTF_MAX_SECTIONS
       ELSE CHOOSE i \in ends : \A j \in ends : i <= j

\* The test of lines 600-603 for descriptors base and comp.
Overlapped(sections, base, comp) ==
    LET base_begin == sections[base].copy_offset
        base_end == SECTION_END(sections[base])
        comp_end == Add32(sections[comp].copy_offset, SECTION_END(sections[comp]))
    IN ~(Lt32(comp_end, base_begin) \/ Gt32(sections[comp].copy_offset, base_end))

\* The pairs for which a warning is printed; valid is "no pair".
validate_tftf_header(hdr) ==
    LET sections == hdr.section_descriptors
        limit == ScanLimit(sections)
    IN {p \in SlotIndex \X SlotIndex :
            /\ p[1] < p[2]
            /\ p[2] < limit
            /\ Overlapped(sections, p[1], p[2])}

\* ----------------------------------------------------------- write_tftf_file
\* open(O_RDWR | O_CREAT | O_TRUNC) and the lseek past the header; a failed
\* open returns PROGRAM_ERRORS through the bool return type.
OpenOutput ==
    /\ pc = "open"
    /\ \E opened \in {TRUE} \cup (IF faults < MaxFaults THEN {FALSE} ELSE {}) :
          IF opened
          THEN /\ out_exists' = TRUE
               /\ out_pos' = TFTF_HDR_LENGTH
               /\ section' = 0
               /\ tftf_copy_offset' = 0
               /\ wsuccess' = TRUE
               /\ pc' = "loop"
               /\ UNCHANGED <<faults, success, messages>>
          ELSE /\ faults' = faults + 1
               /\ messages' = messages \cup {"unable to create"}
               /\ success' = ToBool(PROGRAM_ERRORS)
               /\ pc' = "report"
               /\ UNCHANGED <<out_exists, out_pos, section, tftf_copy_offset,
                              wsuccess>>
    /\ UNCHANGED <<bulk, pending, program_status, tftf_header, payload_at,
                   hdr_on_disk, hdr_writes, copy_log, warnings>>
    /\ UNCHANGED parse_vars
    /\ UNCHANGED opt_vars

\* Faulty variant: an explicit offset is taken relative to the running offset.
section_start_relative(offset, copy_offset) ==
    IF Gt32(offset, 0) THEN Add32(copy_offset, offset) ELSE copy_offset

\* Lines 517-519: an explicit offset above 0 replaces the running copy offset.
section_start(offset, copy_offset) ==
    IF Gt32(offset, 0) THEN offset ELSE copy_offset

\* One iteration of the for loop of lines 507-533.
AppendSection ==
    /\ pc = "loop"
    /\ wsuccess
    /\ section < section_index + 1
    /\ LET entry == section_cache[section]
           start == section_start(entry.offset, tftf_copy_offset)
       IN \E fault \in {NoFault} \cup
                 (IF faults < MaxFaults THEN FaultsOf(entry.filename) ELSE {}) :
             LET r == append_tftf_section(entry.filename, entry.type,
                          tftf_header.section_descriptors[section], start, fault)
             IN /\ wsuccess' = r.success
                /\ tftf_copy_offset' = r.tftf_copy_offset
                /\ tftf_header' =
                       IF r.success
                       THEN [tftf_header EXCEPT
                               !.section_descriptors[section] = r.section,
                               !.load_length =
                                   Add32(tftf_header.load_length,
                                         r.section.section_length),
                               !.expanded_length = r.tftf_copy_offset]
                       ELSE [tftf_header EXCEPT
                               !.section_descriptors[section] = r.section]
                /\ out_pos' = out_pos + r.copy.written
                /\ payload_at' = Append(payload_at, out_pos)
                /\ copy_log' = Append(copy_log,
                       [file |-> entry.filename, fault |-> fault.kind,
                        opened |-> r.copy.opened, read |-> r.copy.read,
                        eof |-> r.copy.eof, written |-> r.copy.written,
                        status |-> r.copy.status])
                /\ messages' = messages \cup r.copy.printed
                /\ faults' = IF fault = NoFault THEN faults ELSE faults + 1
    /\ section' = section + 1
    /\ UNCHANGED <<pc, bulk, pending, success, program_status, out_exists,
                   hdr_on_disk, hdr_writes, warnings>>
    /\ UNCHANGED parse_vars
    /\ UNCHANGED opt_vars

\* Faulty variant: the header is finished and written whether or not every
\* section was appended.
FinishWrite_early ==
    /\ pc = "loop"
    /\ ~(wsuccess /\ section < section_index + 1)
    /\ IF TRUE
       THEN \E now \in Times :
            \E result \in {"full"} \cup
                  (IF faults < MaxFaults THEN {"short", "error"} ELSE {}) :
               LET hdr == [tftf_header EXCEPT
                               !.sentinel = TFTF_SENTINEL,
                               !.timestamp = set_timestamp(now)]
               IN /\ tftf_header' = hdr
                  /\ out_pos' = IF result = "full" THEN TFTF_HDR_LENGTH
                                ELSE IF result = "short" THEN TFTF_HDR_LENGTH - 1
                                ELSE 0
                  /\ hdr_on_disk' = IF result = "full" THEN hdr
                                    ELSE IF result = "short" THEN "partial"
                                    ELSE hdr_on_disk
                  /\ hdr_writes' = IF result = "error" THEN hdr_writes
                                   ELSE hdr_writes + 1
                  /\ wsuccess' = (wsuccess /\ result = "full")
                  /\ success' = (wsuccess /\ result = "full")
                  /\ faults' = IF result = "full" THEN faults ELSE faults + 1
                  /\ messages' = messages \cup
                         (IF result = "full" THEN {}
                          ELSE {"unable to write TFTF header"})
       ELSE /\ success' = FALSE
            /\ UNCHANGED <<tftf_header, out_pos, hdr_on_disk, hdr_writes,
                           wsuccess, faults, messages>>
    /\ pc' = "report"
    /\ UNCHANGED <<bulk, pending, program_status, section, tftf_copy_offset,
                   out_exists, payload_at, copy_log, warnings>>
    /\ UNCHANGED parse_vars
    /\ UNCHANGED opt_vars

\* After the loop (lines 535-562): on success the sentinel, the timestamp and
\* the header write at offset 0; then close and return.
FinishWrite ==
    /\ pc = "loop"
    /\ ~(wsuccess /\ section < section_index + 1)
    /\ IF wsuccess
       THEN \E now \in Times :
            \E result \in {"full"} \cup
                  (IF faults < MaxFaults THEN {"short", "error"} ELSE {}) :
               LET hdr == [tftf_header EXCEPT
                               !.sentinel = TFTF_SENTINEL,
                               !.timestamp = set_timestamp(now)]
               IN /\ tftf_header' = hdr
                  /\ out_pos' = IF result = "full" THEN TFTF_HDR_LENGTH
                                ELSE IF result = "short" THEN TFTF_HDR_LENGTH - 1
                                ELSE 0
                  /\ hdr_on_disk' = IF result = "full" THEN hdr
                                    ELSE IF result = "short" THEN "partial"
                                    ELSE hdr_on_disk
                  /\ hdr_writes' = IF result = "error" THEN hdr_writes
                                   ELSE hdr_writes + 1
                  /\ wsuccess' = (result = "full")
                  /\ success' = (result = "full")
                  /\ faults' = IF result = "full" THEN faults ELSE faults + 1
                  /\ messages' = messages \cup
                         (IF result = "full" THEN {}
                          ELSE {"unable to write TFTF header"})
       ELSE /\ success' = FALSE
            /\ UNCHANGED <<tftf_header, out_pos, hdr_on_disk, hdr_writes,
                           wsuccess, faults, messages>>
    /\ pc' = "report"
    /\ UNCHANGED <<bulk, pending, program_status, section, tftf_copy_offset,
                   out_exists, payload_at, copy_log, warnings>>
    /\ UNCHANGED parse_vars
    /\ UNCHANGED opt_vars

\* Faulty variant: the failed build's output file is not unlinked.
Report_keep ==
    /\ pc = "report"
    /\ IF success
       THEN LET pairs == validate_tftf_header(tftf_header)
            IN /\ warnings' = pairs
               /\ program_status' = IF pairs # {} THEN PROGRAM_WARNINGS
                                    ELSE program_status
               /\ messages' = messages \cup {"Wrote TFTF file"}
                      \cup (IF verbose THEN {"TFTF Header"} ELSE {})
       ELSE /\ messages' = messages \cup {"There were errors"}
            /\ program_status' = PROGRAM_ERRORS
            /\ UNCHANGED warnings
    /\ pc' = "exit"
    /\ UNCHANGED <<bulk, pending, faults, success, tftf_header, section,
                   tftf_copy_offset, wsuccess, out_exists, out_pos, payload_at,
                   hdr_on_disk, hdr_writes, copy_log>>
    /\ UNCHANGED parse_vars
    /\ UNCHANGED opt_vars

\* main, lines 794-814: the header check and the exit status, or the unlink.
Report ==
    /\ pc = "report"
    /\ IF success
       THEN LET pairs == validate_tftf_header(tftf_header)
            IN /\ warnings' = pairs
               /\ program_status' = IF pairs # {} THEN PROGRAM_WARNINGS
                                    ELSE program_status
               /\ messages' = messages \cup {"Wrote TFTF file"}
                      \cup (IF verbose THEN {"TFTF Header"} ELSE {})
               /\ UNCHANGED out_exists
       ELSE /\ out_exists' = FALSE
            /\ messages' = messages \cup {"There were errors"}
            /\ program_status' = PROGRAM_ERRORS
            /\ UNCHANGED warnings
    /\ pc' = "exit"
    /\ UNCHANGED <<bulk, pending, faults, success, tftf_header, section,
                   tftf_copy_offset, wsuccess, out_pos, payload_at,
                   hdr_on_disk, hdr_writes, copy_log>>
    /\ UNCHANGED parse_vars
    /\ UNCHANGED opt_vars

\* ------------------------------------------------------------ specification
Next ==
    \/ \E f \in ManifestFiles : OptManifest(f)
    \/ \E f \in CodeFiles : OptCode(f)
    \/ \E f \in DataFiles : OptData(f)
    \/ \E arg \in OffsetArgs \cup HighOffsetArgs : OptOffset(arg)
    \/ \E arg \in LoadArgs : OptLoad(arg)
    \/ \E name \in OutNames : OptOut(name)
    \/ \E arg \in NameArgs : OptName(arg)
    \/ \E arg \in StartArgs : OptStart(arg)
    \/ \E arg \in IdArgs : OptUniproMfg(arg)
    \/ \E arg \in IdArgs : OptUniproProduct(arg)
    \/ \E arg \in IdArgs : OptAraVendor(arg)
    \/ \E arg \in IdArgs : OptAraProduct(arg)
    \/ OptVerbose
    \/ OptCompress
    \/ OptUnknown
    \/ CheckArgs
    \/ OpenOutput
    \/ AppendSection
    \/ FinishWrite
    \/ Report

Spec == Init /\ [][Next]_vars

\* ================================================================== claims
\* The number of sections handed to write_tftf_file.
NumSections == section_index + 1

Placed == 0 .. (NumSections - 1)

\* The program has ended with the TFTF file written: write_tftf_file created
\* the output, appended every section and wrote the header.
Built == pc = "exit" /\ success /\ out_exists /\ hdr_on_disk = tftf_header

Descriptors == tftf_header.section_descriptors

\* First address past a section, in uint32_t arithmetic.
PastEnd(sec) == Add32(sec.copy_offset, sec.expanded_length)

\* No copy_file call of the run met an I/O fault.
CleanIO == \A i \in 1 .. Len(copy_log) : copy_log[i].fault = "none"

NoExplicitOffsets == \A i \in Placed : section_cache[i].offset = 0

\* The inclusive address ranges of two descriptors intersect.
RangesIntersect(a, b) ==
    ~(Lt32(SECTION_END(b), a.copy_offset) \/ Gt32(b.copy_offset, SECTION_END(a)))

\* ------------------------------------------------------------------- C1
\* C1: in a successful build whose section requests carry no explicit
\* offset, the first section has copy_offset 0 and every section starts
\* where the one before it ends (copy_offset + expanded_length).
C1_Contiguous ==
    (Built /\ NoExplicitOffsets) =>
        /\ Descriptors[0].copy_offset = 0
        /\ \A i \in Placed : (i + 1) \in Placed =>
               PastEnd(Descriptors[i]) = Descriptors[i + 1].copy_offset

\* A build of two sections of different kinds, without offsets, has ended.
C1_Witness ==
    /\ Built
    /\ NoExplicitOffsets
    /\ bulk = 0
    /\ NumSections >= 2
    /\ Descriptors[1].copy_offset > 0

\* ------------------------------------------------------------------- C2
\* C2: in a successful build the header's expanded_length is the maximum of
\* copy_offset + expanded_length over the placed sections, whatever the
\* explicit offsets are (stated for the builds whose I/O met no fault).
C2_ExpandedLengthIsExtent ==
    (Built /\ CleanIO) =>
        /\ \E i \in Placed : tftf_header.expanded_length = PastEnd(Descriptors[i])
        /\ \A i \in Placed :
               ~Lt32(tftf_header.expanded_length, PastEnd(Descriptors[i]))

\* ------------------------------------------------------------------- C3
\* C3: validate_tftf_header reports a pair of placed sections exactly when
\* their inclusive address ranges intersect (stated for the builds whose
\* I/O met no fault).
C3_OverlapIffIntersect ==
    (Built /\ CleanIO) =>
        \A i \in Placed : \A j \in Placed :
            i < j => ((<<i, j>> \in warnings) <=>
                          RangesIntersect(Descriptors[i], Descriptors[j]))

\* ------------------------------------------------------------------- C4
\* C4: once a section request has been refused because the cache is full,
\* the build fails: the program ends without having written a header and
\* with no output file, and does not report the file as written.
C4_TooManySectionsFails ==
    (pc = "exit" /\ "too many sections" \in messages) =>
        /\ ~success
        /\ ~out_exists
        /\ hdr_writes = 0
        /\ "Wrote TFTF file" \notin messages

\* ------------------------------------------------------------------- C5
\* C5: copying an empty input that opens and meets no I/O fault succeeds,
\* and its descriptor has section_length = expanded_length = 0.
C5_EmptySectionPlaced ==
    \A i \in 1 .. Len(copy_log) :
        (/\ copy_log[i].opened
         /\ FileSize(copy_log[i].file) = 0
         /\ copy_log[i].fault = "none") =>
            /\ copy_log[i].status = 0
            /\ Descriptors[i - 1].section_length = 0
            /\ Descriptors[i - 1].expanded_length = 0
            /\ Descriptors[i - 1].section_type = section_cache[i - 1].type

\* ------------------------------------------------------------------- C6
\* C6: in the header written by a successful build of n < 25 sections, slot n
\* has the end-of-table type and is otherwise zero, and the slots after it
\* are all zero.
C6_EndMarkerAtFirstUnused ==
    (Built /\ NumSections < TFTF_MAX_SECTIONS) =>
        /\ hdr_on_disk.section_descriptors[NumSections] =
               [tftf_section EXCEPT
                    !.section_type = TFTF_SECTION_TYPE_END_OF_DESCRIPTORS]
        /\ \A i \in SlotIndex :
               i > NumSections => hdr_on_disk.section_descriptors[i] = tftf_section

\* ------------------------------------------------------------------- C7
\* C7: if appending a section failed, at whatever position, the output file
\* does not exist when the program ends.
C7_FailedAppendRemovesOutput ==
    (pc = "exit" /\ \E i \in 1 .. Len(copy_log) : copy_log[i].status # 0) =>
        ~out_exists

\* The program has ended after a section was copied into the output and the
\* next one failed: the file that had been created is gone.
C7_Witness ==
    /\ pc = "exit"
    /\ Len(copy_log) >= 2
    /\ copy_log[1].status = 0
    /\ copy_log[1].written > 0
    /\ copy_log[Len(copy_log)].status # 0
    /\ ~out_exists

\* ------------------------------------------------------------------- C8
\* C8: copy_file returns success only if every byte read was written and the
\* whole input was copied: the section_length it stores is the input's length.
C8_CopyCompleteOnSuccess ==
    \A i \in 1 .. Len(copy_log) :
        copy_log[i].status = 0 =>
            /\ copy_log[i].written = copy_log[i].read
            /\ copy_log[i].written = FileSize(copy_log[i].file)
            /\ Descriptors[i - 1].section_length = FileSize(copy_log[i].file)

\* ------------------------------------------------------------------- C9
\* C9: on every failure path (bad number, no output name, no section, output
\* not created, section not copied, header not written) the program ends
\* with status 2 and does not print that the file was written.
FailureMessages ==
    {"invalid number", "no output file specified", "missing input section(s)",
     "unable to create", "unable to copy", "unable to write TFTF header"}

C9_FailureExitsWithErrors ==
    (pc = "exit" /\ messages \cap FailureMessages # {}) =>
        /\ program_status = PROGRAM_ERRORS
        /\ "Wrote TFTF file" \notin messages

\* ------------------------------------------------------------------ C10
\* C10: a successful build whose placed sections are pairwise disjoint gets
\* no overlap warning and exit status 0.
C10_CleanLayoutExitsZero ==
    (/\ Built
     /\ CleanIO
     /\ \A i \in Placed : \A j \in Placed :
            i < j => ~RangesIntersect(Descriptors[i], Descriptors[j])) =>
        /\ warnings = {}
        /\ program_status = PROGRAM_SUCCESS

\* ------------------------------------------------------------------ C11
\* The build went through: every section was appended, the header was
\* written, and the program has ended.
Completed == pc = "exit" /\ success /\ hdr_writes = 1

\* C11: when two placed sections of a completed build overlap, the output
\* file with its header is left in place and the exit status is 1
\* (stated for the builds whose I/O met no fault).
C11_OverlapNonFatal ==
    (/\ Completed
     /\ CleanIO
     /\ \E i \in Placed : \E j \in Placed :
            i < j /\ RangesIntersect(Descriptors[i], Descriptors[j])) =>
        /\ out_exists
        /\ hdr_on_disk = tftf_header
        /\ "Wrote TFTF file" \in messages
        /\ program_status = PROGRAM_WARNINGS

\* ------------------------------------------------------------------ C12
\* C12: the header is written at most once, at offset 0 (the file position
\* after it is the header length), and only after every section has been
\* appended; sentinel and timestamp are set only then, so after a failed
\* section the sentinel is 0 and no header byte has been written.
C12_HeaderOnceAfterAllSections ==
    /\ hdr_writes <= 1
    /\ (\/ hdr_writes > 0
        \/ tftf_header.sentinel # 0
        \/ tftf_header.timestamp # tftf_hdr.timestamp) =>
           /\ pc \in {"report", "exit"}
           /\ section = NumSections
           /\ Len(copy_log) = NumSections
           /\ \A i \in 1 .. Len(copy_log) : copy_log[i].status = 0
    /\ (\E i \in 1 .. Len(copy_log) : copy_log[i].status # 0) =>
           /\ tftf_header.sentinel = 0
           /\ hdr_writes = 0
    /\ Completed =>
           /\ out_pos = TFTF_HDR_LENGTH
           /\ tftf_header.sentinel = TFTF_SENTINEL

\* The second section of a build failed after the first had been copied: the
\* program has ended with the sentinel still 0 and no header written.
C12_Witness ==
    /\ pc = "exit"
    /\ Len(copy_log) = 2
    /\ copy_log[1].status = 0
    /\ copy_log[2].status # 0
    /\ tftf_header.sentinel = 0
    /\ hdr_writes = 0

\* ------------------------------------------------------------------ C13
\* Sum of section_length over the first n descriptors (uint32_t).
RECURSIVE SumLengths(_, _)
SumLengths(descs, n) ==
    IF n = 0 THEN 0
    ELSE Add32(SumLengths(descs, n - 1), descs[n - 1].section_length)

\* Number of payload bytes the first n copies put into the file.
RECURSIVE SumWritten(_, _)
SumWritten(log, n) ==
    IF n = 0 THEN 0 ELSE SumWritten(log, n - 1) + log[n].written

\* C13: in a completed build load_length is the sum of the placed sections'
\* section_length, which is the number of payload bytes in the file, and
\* payload i starts at 512 plus the section_length of the sections before
\* it, whatever the explicit offsets are.
C13_LoadLengthIsPayload ==
    Completed =>
        /\ tftf_header.load_length = SumLengths(Descriptors, NumSections)
        /\ tftf_header.load_length = SumWritten(copy_log, NumSections)
        /\ \A i \in Placed :
               payload_at[i + 1] = TFTF_HDR_LENGTH + SumLengths(Descriptors, i)

\* A completed build of two non-empty sections, the second with an explicit
\* offset below the first: its payload still follows the first in the file.
C13_Witness ==
    /\ Completed
    /\ NumSections = 2
    /\ section_cache[1].offset # 0
    /\ Descriptors[0].section_length > 0
    /\ Descriptors[1].section_length > 0
    /\ payload_at[2] = TFTF_HDR_LENGTH + Descriptors[0].section_length
    /\ payload_at[2] # TFTF_HDR_LENGTH + Descriptors[1].copy_offset

\* ------------------------------------------------------------------ C14
\* C14: every appended section has as copy_offset its explicit offset when
\* that is non-zero, and otherwise the end (copy_offset + expanded_length)
\* of the section before it, 0 for the first.
C14_OffsetOrPreviousEnd ==
    \A i \in 1 .. Len(copy_log) :
        copy_log[i].status = 0 =>
            Descriptors[i - 1].copy_offset =
                IF section_cache[i - 1].offset # 0
                THEN section_cache[i - 1].offset
                ELSE IF i = 1 THEN 0
                ELSE PastEnd(Descriptors[i - 2])

\* A completed build whose first section has an explicit offset and whose
\* second has none: the second lies right after the shifted first.
C14_Witness ==
    /\ Completed
    /\ NumSections = 2
    /\ section_cache[0].offset # 0
    /\ section_cache[1].offset = 0
    /\ Descriptors[0].copy_offset = section_cache[0].offset
    /\ Descriptors[1].copy_offset = PastEnd(Descriptors[0])
    /\ Descriptors[1].copy_offset # Descriptors[0].expanded_length

\* ------------------------------------------------------------------ C15
\* The content of the fw_pkg_name field for a name: its first 48 characters,
\* then NULs.
NameField(name) ==
    [i \in 1 .. TFTF_FW_PKG_NAME_LENGTH |->
        IF i <= Len(name) THEN name[i] ELSE NUL]

\* C15: every --name option leaves in fw_pkg_name the first min(len, 48)
\* characters of its name followed by NULs, whatever name was there before,
\* and changes nothing else of the header (load_length, which follows the
\* field, included).
C15_NameStoredInField ==
    [][(pc = "getopt" /\ option' = "n") =>
           tftf_header' =
               [tftf_header EXCEPT !.fw_pkg_name = NameField(optarg')]]_vars

\* A name longer than the field has just been stored: the field's last byte
\* is the name's 48th character and load_length is untouched.
C15_Witness ==
    /\ pc = "getopt"
    /\ option = "n"
    /\ Len(optarg) > TFTF_FW_PKG_NAME_LENGTH
    /\ tftf_header.fw_pkg_name[TFTF_FW_PKG_NAME_LENGTH] =
           optarg[TFTF_FW_PKG_NAME_LENGTH]
    /\ tftf_header.load_length = 0

\* ------------------------------------------------------------------ C16
\* The load address the usage text promises when --load is omitted.
DefaultLoadBase == 268435456

\* C16: in a completed build load_base is 0x10000000 when no --load was
\* given, and start_location is load_base when no --start was given.
C16_DefaultLoadAndStart ==
    Completed =>
        /\ "l" \notin seen => tftf_header.load_base = DefaultLoadBase
        /\ "s" \notin seen =>
               tftf_header.start_location = tftf_header.load_base

\* ------------------------------------------------------------------ C17
\* C17: an --offset option is stored, into the section the parser is at, if
\* the option read just before it is --code or --data; otherwise it is
\* rejected with a message and no section's offset changes.
C17_OffsetAfterCodeOrData ==
    [][(pc = "getopt" /\ option' = "f") =>
           IF option \in {"c", "d"}
           THEN section_cache' =
                    [section_cache EXCEPT
                        ![section_index].offset = get_num(optarg').num]
           ELSE /\ section_cache' = section_cache
                /\ "offset only allowed after code and data" \in messages']_vars

\* ------------------------------------------------------------------ C18
\* "YYYYMMDD HHMMSS" for a struct tm, the month as the calendar month.
CalendarStamp(now) ==
    Fmt4(now.tm_year + 1900) \o Fmt2(now.tm_mon + 1) \o Fmt2(now.tm_mday)
    \o <<" ">> \o Fmt2(now.tm_hour) \o Fmt2(now.tm_min) \o Fmt2(now.tm_sec)

\* C18: once set, the timestamp field holds within its 16 bytes the 15
\* characters "YYYYMMDD HHMMSS" of the time of the build, the month counted
\* from 01 (January) to 12 (December).
C18_TimestampCalendarMonth ==
    tftf_header.sentinel # 0 =>
        /\ Len(tftf_header.timestamp) = TFTF_TIMESTAMP_LENGTH
        /\ \E now \in Times :
               SubSeq(tftf_header.timestamp, 1, TFTF_TIMESTAMP_LENGTH - 1) =
                   CalendarStamp(now)

\* ------------------------------------------------------------------ C19
\* C19: an --offset option changes at most the offset of the section cached
\* by the --code or --data option read just before it; when that option was
\* refused because the cache is full, no cached section's offset changes.
C19_OffsetOnlyOnNamedSection ==
    [][(pc = "getopt" /\ option' = "f") =>
           \A i \in SlotIndex :
               section_cache'[i].offset # section_cache[i].offset =>
                   /\ option \in {"c", "d"}
                   /\ i = section_index
                   /\ "too many sections" \notin messages]_vars

\* ------------------------------------------------------------------ C20
\* C20: section_index stays within -1 .. 24; an offset is only ever stored
\* at an index within 0 .. 24; write_tftf_file runs with 1 .. 25 sections and
\* its loop only writes descriptors 0 .. 24.
C20_IndexesInRange ==
    /\ section_index \in -1 .. (TFTF_MAX_SECTIONS - 1)
    /\ (pc = "getopt" /\ allow_offset) => section_index \in SlotIndex
    /\ \A i \in SlotIndex :
           i > section_index => section_cache[i] = section_info
    /\ pc \in {"open", "loop"} => NumSections \in 1 .. TFTF_MAX_SECTIONS
    /\ (pc = "loop" /\ wsuccess /\ section < NumSections) =>
           section \in SlotIndex
    /\ Len(copy_log) <= TFTF_MAX_SECTIONS

\* A completed build of a line with more section options than the cache
\* holds: 25 sections were written, the others had been refused.
C20_Witness ==
    /\ Completed
    /\ "too many sections" \in messages
    /\ section_index = TFTF_MAX_SECTIONS - 1
    /\ section = TFTF_MAX_SECTIONS
    /\ Len(copy_log) = TFTF_MAX_SECTIONS

====
